---- MODULE Spec2Model ----
(***************************************************************************)
(* alphabuddy: a single-worker batch orchestrator.  The worker watches     *)
(* input/ for YAML job descriptors, validates each against settings.yaml,  *)
(* runs the AlphaFold pipeline as a child process and files the descriptor *)
(* under done_jobs/ or failed_jobs/.  Source: src/alphabuddy.py.           *)
(*                                                                         *)
(* Python values are encoded as strings where TLC needs one type per       *)
(* field: "None" is an absent key / None, "True" the boolean True, and     *)
(* "1" the integer 1, a value that is truthy but is not the object True.   *)
(* Where the code tells an absent key from a null value (hasattr), the     *)
(* absent key is "absent".                                                 *)
(***************************************************************************)
EXTENDS Integers, Sequences, FiniteSets, TLC

----------------------------------------------------------------------------
(* Bounds of the model *)

\* a descriptor lists at most this many sequence entries when generate_fasta
\* is studied on its own
MaxEntries == 2
\* the worker process is started again at most this many times
MaxRestarts == 1
\* descriptor files the environment creates during one run
NumFiles == 2
\* descriptors in the queue when get_next_job is studied on its own
QueueLen == 3
\* settings.yaml declares at most this many versions
MaxVersions == 2

Files == 1..NumFiles
\* Modification times of the worker's descriptors.  Files with equal times
\* are sorted in any order, so two values give every order of the queue.
MTimes == {1, 2}
\* Exit codes of a child process: success and two kinds of failure.
ExitCodes == {0, 1, 2}

----------------------------------------------------------------------------
(* Directories of the run directory *)

DirNames == {"input", "failed_jobs", "done_jobs"}

\* A descriptor's file name without its suffix (Path.stem); names are unique
\* because the environment never reuses a file name.
stem(f) == "job" \o ToString(f)

----------------------------------------------------------------------------
(* settings.yaml *)

Items == <<"data_dir", "path", "venv">>

\* YAML keys usable as version ids; "0" stands for the integer key 0, the
\* one id here that Python treats as false.
VersionIds == <<"v1", "v2", "v3", "v4">>
FalsyId == "0"

Truthy(x) == x \notin {"None", "False", FalsyId, ""}

VersionEntry(id, dflt, dd, p, v, img) ==
    [id |-> id, default |-> dflt, data_dir |-> dd, path |-> p, venv |-> v,
     docker_image_name |-> img]

NoAlphaplots == [declared |-> FALSE, path |-> "None", venv |-> "None"]

SettingsObj(kind, vkind, versions, out, user, ap) ==
    [kind |-> kind, versions_kind |-> vkind, versions |-> versions,
     output_dir |-> out, docker_user |-> user, alphaplots |-> ap]

\* settings before main() has loaded the file
NoSettings == SettingsObj("unloaded", "absent", <<>>, "None", "None", NoAlphaplots)

\* settings["versions"] as the keys of the mapping
VersionKeys(settings) ==
    {settings.versions[i].id : i \in 1..Len(settings.versions)}

\* settings["versions"][id]
VersionDict(settings, id) ==
    LET i == CHOOSE k \in 1..Len(settings.versions) : settings.versions[k].id = id
    IN  settings.versions[i]

\* next((version for ... if version_params.get("default") is True), None)
FirstDefaultAny(versions) ==
    LET hits == {i \in 1..Len(versions) : versions[i].default \in {"True", "1"}}
    IN  IF hits = {} THEN "None"
        ELSE versions[CHOOSE i \in hits : \A j \in hits : i <= j].id

FirstDefaultIsTrue(versions) ==
    LET hits == {i \in 1..Len(versions) : versions[i].default = "True"}
    IN  IF hits = {} THEN "None"
        ELSE versions[CHOOSE i \in hits : \A j \in hits : i <= j].id

\* the per-version loop over data_dir, path, venv
DirsValid(versions) ==
    \A i \in 1..Len(versions) : \A k \in 1..Len(Items) :
        /\ versions[i][Items[k]] # "None"
        /\ versions[i][Items[k]] = "dir"

\* check_settings: "ok" when it returns, "exit" for sys.exit(1), "TypeError"
\* when `"versions" not in settings` is evaluated on None
check_settings(settings) ==
    IF settings.kind # "mapping" THEN "TypeError"
    ELSE IF settings.versions_kind # "dict" THEN "exit"
    ELSE IF ~Truthy(FirstDefaultIsTrue(settings.versions)) THEN "exit"
    ELSE IF ~DirsValid(settings.versions) THEN "exit"
    ELSE "ok"

----------------------------------------------------------------------------
(* Job descriptors (the YAML files in input/) *)

\* job_dict["sequences"]: kind is "absent" (no key), "empty" ([]),
\* "not_list" (a mapping, a string, null) or "list"; entries are the list's
\* items, each the sequence of (name, sequence) pairs of entry.items(), or
\* "str" for a list of plain strings such as `- MKT`.
Sequences(kind, items, entries) == [kind |-> kind, items |-> items, entries |-> entries]

NoSequences == Sequences("absent", "None", <<>>)
EmptySequences == Sequences("empty", "None", <<>>)
NotListSequences == Sequences("not_list", "None", <<>>)
OneSequence == Sequences("list", "dict", << <<[name |-> "A", sequence |-> "MKT"]>> >>)
StrSequences == Sequences("list", "str", <<>>)

\* What yaml.safe_load gives for the file: kind is "unparseable" (safe_load
\* raises), "null" (an empty document: None), "list" (a YAML list without
\* the string "urgent"), or "mapping".
\* The descriptor's keys that only run_alphafold reads: "absent" when the
\* key is not in the file, "None" when it is there without a value.
NoParams ==
    [max_template_date |-> "absent", model_preset |-> "absent",
     num_multimer_predictions_per_model |-> "absent",
     models_to_relax |-> "absent", docker_image_name |-> "absent"]

Descriptor(kind, urgent, version, sequences, name, out, ap) ==
    [kind |-> kind, urgent |-> urgent, version |-> version,
     sequences |-> sequences, name |-> name, output_dir |-> out,
     alphaplots |-> ap, params |-> NoParams]

Unparseable == Descriptor("unparseable", "None", "None", NoSequences, "None", "None", "None")
NullDoc == Descriptor("null", "None", "None", NoSequences, "None", "None", "None")
ListDoc == Descriptor("list", "None", "None", NoSequences, "None", "None", "None")
Mapping(urgent, version, sequences, name, out, ap) ==
    Descriptor("mapping", urgent, version, sequences, name, out, ap)

\* no file of that id exists (yet)
NoDescriptor == Descriptor("nofile", "None", "None", NoSequences, "None", "None", "None")

\* `key in job_dict`: raises TypeError on None, is False on a list that
\* does not hold the key
InRaises(d) == d.kind = "null"
HasKey(d, key) == d.kind = "mapping" /\ d[key] # "None"

\* an urgency test by truth value instead of identity with True
IsUrgent_truthy(d) == HasKey(d, "urgent") /\ Truthy(d.urgent)

\* "urgent" in job_dict and job_dict["urgent"] is True
IsUrgent(d) == HasKey(d, "urgent") /\ d.urgent = "True"

\* "sequences" in job_dict
HasSequences(d) == d.kind = "mapping" /\ d.sequences.kind # "absent"

----------------------------------------------------------------------------
(* Job selection *)

NoFile == 0

\* jobs.sort(key=mtime) applied to the glob result: every ordering of the
\* queue that is non-decreasing in mtime (the sort is stable and the glob
\* order of files with equal mtime is the file system's).
SortedJobs(queue, mt) ==
    LET n == Cardinality(queue)
    IN  {js \in [1..n -> queue] :
            /\ \A i, j \in 1..n : i # j => js[i] # js[j]
            /\ \A i, j \in 1..n : i < j => mt[js[i]] <= mt[js[j]]}

GetResult(ret, job, moved) == [ret |-> ret, job |-> job, moved |-> moved]

\* a loop whose except branch only logs and goes on to the next file
RECURSIVE ScanJobs_skips(_, _, _)
ScanJobs_skips(jobs, ds, i) ==
    IF i > Len(jobs) THEN GetResult("job", jobs[1], NoFile)
    ELSE IF ds[jobs[i]].kind = "unparseable" THEN ScanJobs_skips(jobs, ds, i + 1)
    ELSE IF InRaises(ds[jobs[i]]) THEN GetResult("TypeError", jobs[i], NoFile)
    ELSE IF IsUrgent(ds[jobs[i]]) THEN GetResult("job", jobs[i], NoFile)
    ELSE ScanJobs_skips(jobs, ds, i + 1)

\* the for loop of get_next_job from position i on
RECURSIVE ScanJobs(_, _, _)
ScanJobs(jobs, ds, i) ==
    IF i > Len(jobs) THEN GetResult("job", jobs[1], NoFile)
    ELSE IF ds[jobs[i]].kind = "unparseable" THEN GetResult("False", NoFile, jobs[i])
    ELSE IF InRaises(ds[jobs[i]]) THEN GetResult("TypeError", jobs[i], NoFile)
    ELSE IF IsUrgent(ds[jobs[i]]) THEN GetResult("job", jobs[i], NoFile)
    ELSE ScanJobs(jobs, ds, i + 1)

\* a selection that files the unparseable descriptor and goes on to return
\* the first mapping of the list
get_next_job_continues(jobs, ds) ==
    LET r == IF jobs = <<>> THEN GetResult("False", NoFile, NoFile)
             ELSE ScanJobs(jobs, ds, 1)
        rest == {i \in 1..Len(jobs) : ds[jobs[i]].kind = "mapping"}
    IN  IF r.moved # NoFile /\ rest # {}
        THEN GetResult("job", jobs[CHOOSE i \in rest : \A k \in rest : i <= k], r.moved)
        ELSE r

\* get_next_job on the sorted list: ret "False" (no job; `moved` names the
\* unparseable file sent to failed_jobs/), "job" (the selected file) or
\* "TypeError" (uncaught, raised while looking at `job`)
get_next_job(jobs, ds) ==
    IF jobs = <<>> THEN GetResult("False", NoFile, NoFile)
    ELSE ScanJobs(jobs, ds, 1)

----------------------------------------------------------------------------
(* Validation *)

\* check_config: "True", "False", or "TypeError" when `"version" in None`
check_config(d, settings) ==
    IF d.kind = "unparseable" THEN "False"
    ELSE IF InRaises(d) THEN "TypeError"
    ELSE IF HasKey(d, "version") /\ d.version \notin VersionKeys(settings) THEN "False"
    ELSE IF ~HasSequences(d) THEN "False"
    ELSE IF d.sequences.kind # "list" THEN "False"
    ELSE "True"

----------------------------------------------------------------------------
(* Job construction *)

\* args.directory, an absolute path
RunDirectory == "/rundir"

Join(a, b) == a \o "/" \o b

Get(value, default) == IF value = "None" THEN default ELSE value

\* AlphaFoldJob(**job_dict): every key of job_dict becomes an attribute;
\* `params` holds max_template_date and the optional pipeline parameters.
\* Paths stand for their resolved form.
AlphaFoldJob(name, version, out, dd, p, v, user, img, seqs, ap, start, params) ==
    [name |-> name, version |-> version, output_dir |-> out,
     job_dir |-> Join(out, name),
     fasta_paths |-> Join(Join(out, name), name \o ".fasta"),
     data_dir |-> dd, alphafold_path |-> p, alphafold_venv |-> v,
     docker_user |-> user, docker_image_name |-> img, sequences |-> seqs,
     alphaplots |-> ap, start_time |-> start, end_time |-> -1, duration |-> -1,
     max_template_date |-> params.max_template_date,
     model_preset |-> params.model_preset,
     num_multimer_predictions_per_model |-> params.num_multimer_predictions_per_model,
     models_to_relax |-> params.models_to_relax]

NoJob == AlphaFoldJob("None", "None", "None", "None", "None", "None", "None",
                      "absent", NoSequences, "None", -1, NoParams)

\* datetime.datetime.today().strftime("%Y-%m-%d") at clock reading t
today(t) == "day" \o ToString(t)

\* job_dict.setdefault("max_template_date", today)
with_max_template_date(params, t) ==
    [params EXCEPT !.max_template_date = IF @ = "absent" THEN today(t) ELSE @]

\* image = version_dict.get("docker_image_name"); if image: job_dict[...] = image
image_of(version_dict, d) ==
    IF Truthy(version_dict.docker_image_name) THEN version_dict.docker_image_name
    ELSE d.params.docker_image_name

\* a builder that lets the settings' output_dir win over the descriptor's
create_alphafold_job_global_first(f, d, settings, start) ==
    LET version == Get(d.version, FirstDefaultAny(settings.versions))
        name == Get(d.name, stem(f))
        out == Get(settings.output_dir,
                   Get(d.output_dir, Join(RunDirectory, "results")))
        version_dict == VersionDict(settings, version)
    IN  AlphaFoldJob(name, version, out, version_dict.data_dir,
                     version_dict.path, version_dict.venv,
                     Get(settings.docker_user, "root"),
                     image_of(version_dict, d), d.sequences,
                     d.alphaplots, start,
                     with_max_template_date(d.params, start))

\* create_alphafold_job(job, settings, args) for descriptor file f, built at
\* clock reading `start`
create_alphafold_job(f, d, settings, start) ==
    LET version == Get(d.version, FirstDefaultAny(settings.versions))
        name == Get(d.name, stem(f))
        out == Get(d.output_dir,
                   Get(settings.output_dir, Join(RunDirectory, "results")))
        version_dict == VersionDict(settings, version)
    IN  AlphaFoldJob(name, version, out, version_dict.data_dir,
                     version_dict.path, version_dict.venv,
                     Get(settings.docker_user, "root"),
                     image_of(version_dict, d), d.sequences,
                     d.alphaplots, start,
                     with_max_template_date(d.params, start))

----------------------------------------------------------------------------
(* Filing *)

\* a move done as copy: the file is not taken out of input/
move_job_copies(ds, f, target_dir_name) ==
    [ds EXCEPT ![target_dir_name] = @ \cup {f}]

\* move_job: one rename from input/ into the target directory
move_job(ds, f, target_dir_name) ==
    [ds EXCEPT !["input"] = @ \ {f},
               ![target_dir_name] = @ \cup {f}]

----------------------------------------------------------------------------
(* Input-file generation *)

RECURSIVE EntryLines(_)
EntryLines(pairs) ==
    IF pairs = <<>> THEN <<>>
    ELSE <<">" \o Head(pairs).name \o "\n", Head(pairs).sequence \o "\n">>
         \o EntryLines(Tail(pairs))

RECURSIVE FastaLines(_)
FastaLines(entries) ==
    IF entries = <<>> THEN <<>>
    ELSE EntryLines(Head(entries)) \o FastaLines(Tail(entries))

RECURSIVE Reversed(_)
Reversed(seq) == IF seq = <<>> THEN <<>> ELSE Append(Reversed(Tail(seq)), Head(seq))

\* a writer that walks the entries from the last to the first
generate_fasta_reversed(j) == FastaLines(Reversed(j.sequences.entries))

\* generate_fasta: the writes to the fasta file, in order
generate_fasta(j) == FastaLines(j.sequences.entries)

\* entry.items() raises AttributeError when a list item is not a mapping
FastaRaises(j) == j.sequences.items # "dict"

----------------------------------------------------------------------------
(* Pipeline invocation *)

RequiredParams ==
    <<"max_template_date", "data_dir", "docker_user", "output_dir", "fasta_paths">>

OptionalParams ==
    <<"model_preset", "num_multimer_predictions_per_model", "models_to_relax",
      "docker_image_name">>

\* a test that takes every parameter as given
hasattr_always(j, param) == TRUE

\* hasattr(self, param)
hasattr(j, param) == j[param] # "absent"

\* f"--{param}={getattr(self, param)}"
Argument(j, param) == "--" \o param \o "=" \o j[param]

\* the second loop of run_alphafold from position i on
RECURSIVE OptionalArguments(_, _)
OptionalArguments(j, i) ==
    IF i > Len(OptionalParams) THEN <<>>
    ELSE (IF hasattr(j, OptionalParams[i])
          THEN <<Argument(j, OptionalParams[i])>> ELSE <<>>)
         \o OptionalArguments(j, i + 1)

\* run_alphafold: the subprocess_list handed to subprocess_log
run_alphafold(j) ==
    <<Join(Join(j.alphafold_venv, "bin"), "python3"),
      Join(Join(j.alphafold_path, "docker"), "run_docker.py")>>
    \o [i \in 1..Len(RequiredParams) |-> Argument(j, RequiredParams[i])]
    \o OptionalArguments(j, 1)

----------------------------------------------------------------------------
(* The worker: state *)

VARIABLES
    pc,             \* where main() is
    settings_file,  \* settings.yaml on disk: [state, content]
    settings,       \* main's `settings`
    plotting,       \* main's `plotting`
    probe,          \* exit code of the alphaplots --version probe, -1 if not run
    dirs,           \* directory name -> descriptor files in it
    created,        \* descriptor files the environment has created so far
    desc,           \* file -> what yaml.safe_load gives for it
    mtime,          \* file -> modification time
    jobs,           \* get_next_job's sorted `jobs` of its latest call
    next_job,       \* main's `next_job` (NoFile for False)
    job,            \* main's `job`
    code,           \* main's `code` after run_alphafold
    children,       \* child processes running now
    invoked,        \* descriptors the pipeline has been started for
    returncode,     \* file -> exit code its pipeline run returned, -1 if none
    starts,         \* file -> number of times the pipeline was started for it
    subprocess_list,\* run_alphafold's subprocess_list of its latest call
    restarts,       \* number of times the worker process was started again
    details,        \* job directory -> alphabuddy_job_details.json in it
    fasta,          \* path -> lines of the fasta file written there
    now,            \* the clock datetime.now() reads
    raised_on       \* descriptor an uncaught exception was raised on

vars == <<pc, settings_file, settings, plotting, probe, dirs, created, desc,
          mtime, jobs, next_job, job, code, children, invoked, returncode,
          starts, subprocess_list, restarts, details, fasta, now, raised_on>>

fs == <<dirs, created, desc, mtime>>
selection == <<jobs, next_job>>
history == <<invoked, returncode, starts, subprocess_list, restarts>>
outputs == <<details, fasta>>
startup == <<settings_file, settings, plotting, probe>>

EmptyMap == [x \in {} |-> 0]
Put(map, key, value) ==
    [x \in DOMAIN map \cup {key} |-> IF x = key THEN value ELSE map[x]]

----------------------------------------------------------------------------
(* The worker: inputs *)

GoodVersion(id, dflt) == VersionEntry(id, dflt, "dir", "dir", "dir", "None")

WorkerVersions ==
    { <<GoodVersion("v1", "None"), GoodVersion("v2", "True")>>,
      <<GoodVersion("v1", "None")>>,
      <<VersionEntry("v1", "True", "dir", "nodir", "dir", "None")>> }

WorkerAlphaplots ==
    { NoAlphaplots,
      [declared |-> TRUE, path |-> "file", venv |-> "None"],
      [declared |-> TRUE, path |-> "nofile", venv |-> "None"],
      [declared |-> TRUE, path |-> "file", venv |-> "venv_nopython"] }

SettingsFile(state, content) == [state |-> state, content |-> content]

WorkerSettingsFiles ==
    { SettingsFile("missing", NoSettings), SettingsFile("unparseable", NoSettings),
      SettingsFile("ok", SettingsObj("null", "absent", <<>>, "None", "None", NoAlphaplots)),
      SettingsFile("ok", SettingsObj("mapping", "absent", <<>>, "None", "None", NoAlphaplots)) }
    \cup { SettingsFile("ok", SettingsObj("mapping", "dict", vs, "None", "None", ap)) :
             vs \in WorkerVersions, ap \in WorkerAlphaplots }

\* a valid, non-urgent descriptor and its one-field variations
BaseDoc == Mapping("None", "None", OneSequence, "None", "None", "None")

WorkerDescs ==
    { Unparseable, NullDoc, ListDoc, BaseDoc,
      [BaseDoc EXCEPT !.urgent = "True"],
      [BaseDoc EXCEPT !.version = "vX"],
      [BaseDoc EXCEPT !.sequences = NoSequences],
      [BaseDoc EXCEPT !.sequences = EmptySequences],
      [BaseDoc EXCEPT !.sequences = NotListSequences],
      [BaseDoc EXCEPT !.sequences = StrSequences],
      [BaseDoc EXCEPT !.alphaplots = "opts"] }

----------------------------------------------------------------------------
(* The worker: initial state and environment *)

Init ==
    /\ pc = "start"
    /\ settings_file \in WorkerSettingsFiles
    /\ settings = NoSettings
    /\ plotting = FALSE
    /\ probe = -1
    /\ dirs = [d \in DirNames |-> {}]
    /\ created = {}
    /\ desc = [f \in Files |-> NoDescriptor]
    /\ mtime = [f \in Files |-> 0]
    /\ jobs = <<>>
    /\ next_job = NoFile
    /\ job = NoJob
    /\ code = -1
    /\ children = {}
    /\ invoked = {}
    /\ returncode = [f \in Files |-> -1]
    /\ starts = [f \in Files |-> 0]
    /\ subprocess_list = <<>>
    /\ restarts = 0
    /\ details = EmptyMap
    /\ fasta = EmptyMap
    /\ now = 0
    /\ raised_on = NoFile

\* Someone drops a new descriptor file into input/ while the worker process
\* lives.  Files are numbered in the order they are created.
ArriveFrom(descs) ==
    \E f \in Files \ created, d \in descs, m \in MTimes :
        /\ pc \notin {"exited", "crashed", "killed"}
        /\ \A g \in Files : g < f => g \in created
        /\ created' = created \cup {f}
        /\ dirs' = [dirs EXCEPT !["input"] = @ \cup {f}]
        /\ desc' = [desc EXCEPT ![f] = d]
        /\ mtime' = [mtime EXCEPT ![f] = m]
        /\ UNCHANGED <<pc, startup, selection, job, code, children, history,
                       outputs, now, raised_on>>

Arrive == ArriveFrom(WorkerDescs)

----------------------------------------------------------------------------
(* The worker: startup *)

\* main: settings.yaml must be a file that yaml.safe_load accepts
LoadSettings ==
    /\ pc = "start"
    /\ IF settings_file.state # "ok"
       THEN pc' = "exited" /\ UNCHANGED settings
       ELSE pc' = "check_settings" /\ settings' = settings_file.content
    /\ UNCHANGED <<settings_file, plotting, probe, fs, selection, job, code,
                   children, history, outputs, now, raised_on>>

\* main: check_settings(settings)
CheckSettings ==
    /\ pc = "check_settings"
    /\ pc' = CASE check_settings(settings) = "ok" -> "check_alphaplots"
               [] check_settings(settings) = "exit" -> "exited"
               [] OTHER -> "crashed"
    /\ UNCHANGED <<startup, fs, selection, job, code, children, history,
                   outputs, now, raised_on>>

\* requirements that let every declared tool through to the probe
alphaplots_requirements_unchecked(ap) == "probe"

\* check_alphaplots_requirements up to the probe: "exit" for sys.exit(1),
\* "probe" when it goes on to run `alphaplots --version`
alphaplots_requirements(ap) ==
    IF ap.path # "file" THEN "exit"
    ELSE IF ap.venv # "None" /\ ap.venv # "venv" THEN "exit"
    ELSE "probe"

\* main: `plotting` is set only when the declared tool answers its probe with 0
CheckAlphaplots ==
    /\ pc = "check_alphaplots"
    /\ IF ~settings.alphaplots.declared
       THEN pc' = "select" /\ plotting' = FALSE /\ UNCHANGED probe
       ELSE IF alphaplots_requirements(settings.alphaplots) = "exit"
       THEN pc' = "exited" /\ UNCHANGED <<plotting, probe>>
       ELSE \E c \in ExitCodes :
               /\ probe' = c
               /\ IF c # 0
                  THEN pc' = "exited" /\ UNCHANGED plotting
                  ELSE pc' = "select" /\ plotting' = TRUE
    /\ UNCHANGED <<settings_file, settings, fs, selection, job, code, children,
                   history, outputs, now, raised_on>>

----------------------------------------------------------------------------
(* The worker: main loop *)

\* a listing that also looks into failed_jobs/
yaml_from_input_and_failed(ds) == ds["input"] \cup ds["failed_jobs"]

\* yaml_from_input(input_path): the descriptor files in input/
yaml_from_input(ds) == ds["input"]

\* next_job = get_next_job(input_path), and the branch on its result
GetNextJob ==
    /\ pc = "select"
    /\ \E js \in SortedJobs(yaml_from_input(dirs), mtime) :
         LET r == get_next_job(js, desc) IN
         /\ jobs' = js
         /\ next_job' = IF r.ret = "job" THEN r.job ELSE NoFile
         /\ dirs' = IF r.moved # NoFile THEN move_job(dirs, r.moved, "failed_jobs")
                    ELSE dirs
         /\ pc' = CASE r.ret = "job" -> "check"
                    [] r.ret = "False" -> "wait"
                    [] OTHER -> "crashed"
         /\ raised_on' = IF r.ret = "TypeError" THEN r.job ELSE raised_on
    /\ UNCHANGED <<startup, created, desc, mtime, job, code, children, history,
                   outputs, now>>

\* a rejection that leaves a record of the rejected descriptor
CheckConfig_records_rejection ==
    /\ pc = "check"
    /\ LET ok == check_config(desc[next_job], settings) IN
       /\ pc' = CASE ok = "True" -> "create"
                  [] ok = "False" -> "select"
                  [] OTHER -> "crashed"
       /\ dirs' = IF ok = "False" THEN move_job(dirs, next_job, "failed_jobs")
                  ELSE dirs
       /\ details' = IF ok = "False"
                     THEN Put(details, Join(RunDirectory, stem(next_job)),
                              [NoJob EXCEPT !.name = stem(next_job)])
                     ELSE details
       /\ raised_on' = IF ok = "TypeError" THEN next_job ELSE raised_on
    /\ UNCHANGED <<startup, created, desc, mtime, selection, job, code, children,
                   history, fasta, now>>

\* if check_config(next_job, settings): ... else: move_job(next_job, "failed_jobs")
CheckConfig ==
    /\ pc = "check"
    /\ LET ok == check_config(desc[next_job], settings) IN
       /\ pc' = CASE ok = "True" -> "create"
                  [] ok = "False" -> "select"
                  [] OTHER -> "crashed"
       /\ dirs' = IF ok = "False" THEN move_job(dirs, next_job, "failed_jobs")
                  ELSE dirs
       /\ raised_on' = IF ok = "TypeError" THEN next_job ELSE raised_on
    /\ UNCHANGED <<startup, created, desc, mtime, selection, job, code, children,
                   history, outputs, now>>

\* job = create_alphafold_job(next_job, settings, args); start_time is read
\* from the clock, which has moved on by the time it is read again
CreateJob ==
    /\ pc = "create"
    /\ job' = create_alphafold_job(next_job, desc[next_job], settings, now)
    /\ now' = now + 1
    /\ pc' = "fasta"
    /\ UNCHANGED <<startup, fs, selection, code, children, history, outputs,
                   raised_on>>

\* job.generate_fasta(): the file is opened for writing, then filled
GenerateFasta ==
    /\ pc = "fasta"
    /\ IF FastaRaises(job)
       THEN /\ fasta' = Put(fasta, job.fasta_paths, <<>>)
            /\ pc' = "crashed"
            /\ raised_on' = next_job
       ELSE /\ fasta' = Put(fasta, job.fasta_paths, generate_fasta(job))
            /\ pc' = "run"
            /\ UNCHANGED raised_on
    /\ UNCHANGED <<startup, fs, selection, job, code, children, history,
                   details, now>>

\* a start that takes the descriptor out of the queue before the run
StartAlphafold_takes_descriptor ==
    /\ pc = "run"
    /\ subprocess_list' = run_alphafold(job)
    /\ children' = children \cup {"alphafold"}
    /\ invoked' = invoked \cup {next_job}
    /\ starts' = [starts EXCEPT ![next_job] = @ + 1]
    /\ dirs' = move_job(dirs, next_job, "done_jobs")
    /\ pc' = "running"
    /\ UNCHANGED <<startup, created, desc, mtime, selection, job, code,
                   returncode, restarts, outputs, now, raised_on>>

\* job.run_alphafold(): the command line is built and subprocess_log
\* starts the pipeline ...
StartAlphafold ==
    /\ pc = "run"
    /\ subprocess_list' = run_alphafold(job)
    /\ children' = children \cup {"alphafold"}
    /\ invoked' = invoked \cup {next_job}
    /\ starts' = [starts EXCEPT ![next_job] = @ + 1]
    /\ pc' = "running"
    /\ UNCHANGED <<startup, fs, selection, job, code, returncode, restarts,
                   outputs, now, raised_on>>

\* a return that does not wait for the child to exit
FinishAlphafold_no_wait ==
    /\ pc = "running"
    /\ \E c \in ExitCodes :
         /\ code' = c
         /\ returncode' = [returncode EXCEPT ![next_job] = c]
    /\ pc' = "file"
    /\ UNCHANGED <<startup, fs, selection, job, children, invoked, starts,
                   subprocess_list, restarts, outputs, now, raised_on>>

\* ... and blocks until it has exited; code = its return code
FinishAlphafold ==
    /\ pc = "running"
    /\ \E c \in ExitCodes :
         /\ code' = c
         /\ returncode' = [returncode EXCEPT ![next_job] = c]
    /\ children' = children \ {"alphafold"}
    /\ pc' = "file"
    /\ UNCHANGED <<startup, fs, selection, job, invoked, starts,
                   subprocess_list, restarts, outputs, now, raised_on>>

\* a filing that does not look at the exit code
target_dir_ignores_code(c) == "done_jobs"

\* main: the directory a finished run's descriptor is moved to
target_dir(c) == IF c # 0 THEN "failed_jobs" ELSE "done_jobs"

\* post-processing called after the if/else instead of inside its else
after_filing_unconditional(c, plot) == IF plot THEN "plots" ELSE "summary"

\* main: what follows the move: run_alphaplots only on the success branch
\* and only with plotting on
after_filing(c, plot) ==
    IF c # 0 THEN "summary"
    ELSE IF plot THEN "plots"
    ELSE "summary"

\* if code: move_job(next_job, "failed_jobs") else: move_job(next_job,
\* "done_jobs"), and then the choice between run_alphaplots and
\* job.alphaplots = False
FileJob ==
    /\ pc = "file"
    /\ dirs' = move_job(dirs, next_job, target_dir(code))
    /\ pc' = after_filing(code, plotting)
    /\ job' = IF code = 0 /\ ~plotting THEN [job EXCEPT !.alphaplots = "False"]
              ELSE job
    /\ UNCHANGED <<startup, created, desc, mtime, selection, code, children,
                   history, outputs, now, raised_on>>

\* job.run_alphaplots(settings): returns at once without an alphaplots
\* block in the descriptor, else starts the tool
StartAlphaplots ==
    /\ pc = "plots"
    /\ IF job.alphaplots = "None"
       THEN pc' = "summary" /\ UNCHANGED children
       ELSE pc' = "plotting" /\ children' = children \cup {"alphaplots"}
    /\ UNCHANGED <<startup, fs, selection, job, code, history, outputs, now,
                   raised_on>>

\* subprocess_log returns when the tool has exited; its return code is dropped
FinishAlphaplots ==
    /\ pc = "plotting"
    /\ \E c \in ExitCodes : children' = children \ {"alphaplots"}
    /\ pc' = "summary"
    /\ UNCHANGED <<startup, fs, selection, job, code, history, outputs, now,
                   raised_on>>

\* job.end_time = now(); job.duration = job.end_time - job.start_time
finished(j, t) == [j EXCEPT !.end_time = t, !.duration = t - j.start_time]

\* a summary written on the success branch only
PrintJobDetails_on_success ==
    /\ pc = "summary"
    /\ job' = finished(job, now)
    /\ details' = IF code = 0 THEN Put(details, job.job_dir, job') ELSE details
    /\ now' = now + 1
    /\ pc' = "select"
    /\ UNCHANGED <<startup, fs, selection, code, children, history, fasta,
                   raised_on>>

\* job.end_time, job.duration, job.print_job_details()
PrintJobDetails ==
    /\ pc = "summary"
    /\ job' = finished(job, now)
    /\ details' = Put(details, job.job_dir, job')
    /\ now' = now + 1
    /\ pc' = "select"
    /\ UNCHANGED <<startup, fs, selection, code, children, history, fasta,
                   raised_on>>

\* the loop test without its `not`
wait_loop_inverted(queue) == IF queue # {} THEN "sleep" ELSE "select"

\* `while not yaml_from_input(input_path)`: sleep on an empty queue, else
\* leave the loop for the next get_next_job
wait_loop(queue) == IF queue = {} THEN "sleep" ELSE "select"

\* while not yaml_from_input(input_path): the test
WaitPoll ==
    /\ pc = "wait"
    /\ pc' = wait_loop(yaml_from_input(dirs))
    /\ UNCHANGED <<startup, fs, selection, job, code, children, history,
                   outputs, now, raised_on>>

\* time.sleep(3)
Sleep ==
    /\ pc = "sleep"
    /\ pc' = "wait"
    /\ UNCHANGED <<startup, fs, selection, job, code, children, history,
                   outputs, now, raised_on>>

Next ==
    \/ Arrive
    \/ LoadSettings
    \/ CheckSettings
    \/ CheckAlphaplots
    \/ GetNextJob
    \/ CheckConfig
    \/ CreateJob
    \/ GenerateFasta
    \/ StartAlphafold
    \/ FinishAlphafold
    \/ FileJob
    \/ StartAlphaplots
    \/ FinishAlphaplots
    \/ PrintJobDetails
    \/ WaitPoll
    \/ Sleep

Spec == Init /\ [][Next]_vars

----------------------------------------------------------------------------
(* The worker process dies and is started again *)

\* The process is ended from outside (CTRL+C, a signal, a power cut) at any
\* point of main(); what is on disk stays as it is.
Kill ==
    /\ pc \notin {"exited", "crashed", "killed"}
    /\ pc' = "killed"
    /\ children' = {}
    /\ UNCHANGED <<startup, fs, selection, job, code, history, outputs, now,
                   raised_on>>

\* A new process runs main() from the top: its variables are fresh, the
\* files are those the dead process left.
Restart ==
    /\ pc \in {"exited", "crashed", "killed"}
    /\ restarts < MaxRestarts
    /\ restarts' = restarts + 1
    /\ pc' = "start"
    /\ settings' = NoSettings
    /\ plotting' = FALSE
    /\ probe' = -1
    /\ jobs' = <<>>
    /\ next_job' = NoFile
    /\ job' = NoJob
    /\ code' = -1
    /\ children' = {}
    /\ raised_on' = NoFile
    /\ UNCHANGED <<settings_file, fs, invoked, returncode, starts,
                   subprocess_list, outputs, now>>

\* descriptors that check_config accepts: one whose pipeline is run, with
\* post-processing asked for, and one whose fasta file cannot be written
RestartDescs ==
    { [BaseDoc EXCEPT !.alphaplots = "opts"],
      [BaseDoc EXCEPT !.sequences = StrSequences] }

ArriveRestart == ArriveFrom(RestartDescs)

\* settings files that pass check_settings and declare a post-processing
\* tool that gets as far as its probe
RestartSettingsFiles ==
    { sf \in WorkerSettingsFiles :
        /\ sf.state = "ok"
        /\ check_settings(sf.content) = "ok"
        /\ sf.content.alphaplots.declared
        /\ alphaplots_requirements(sf.content.alphaplots) = "probe" }

InitRestart ==
    /\ Init
    /\ settings_file \in RestartSettingsFiles

NextRestart ==
    \/ ArriveRestart
    \/ LoadSettings
    \/ CheckSettings
    \/ CheckAlphaplots
    \/ GetNextJob
    \/ CheckConfig
    \/ CreateJob
    \/ GenerateFasta
    \/ StartAlphafold
    \/ FinishAlphafold
    \/ FileJob
    \/ StartAlphaplots
    \/ FinishAlphaplots
    \/ PrintJobDetails
    \/ WaitPoll
    \/ Sleep
    \/ Kill
    \/ Restart

SpecRestart == InitRestart /\ [][NextRestart]_vars

----------------------------------------------------------------------------
(* Properties of the worker *)

DirsOf(f) == {d \in DirNames : f \in dirs[d]}

\* C1: in every reachable state each descriptor file that exists is in
\* exactly one of input/, failed_jobs/ and done_jobs/ (never in two, never
\* in none), and a directory holds only files that exist.
C1_ExactlyOneDirectory ==
    /\ \A f \in created : Cardinality(DirsOf(f)) = 1
    /\ \A f \in Files \ created : DirsOf(f) = {}

\* both kinds of move have happened and a descriptor is still queued
C1_Witness ==
    /\ dirs["failed_jobs"] # {}
    /\ dirs["done_jobs"] # {}

\* the pipeline run of f has returned and main has acted on the code
Filed(f) == returncode[f] # -1 /\ ~(pc = "file" /\ next_job = f)

\* C2: once the pipeline run of a validated descriptor has returned and
\* main has acted on the exit code, the descriptor is in done_jobs/ (only)
\* if the code was 0 and in failed_jobs/ (only) if it was nonzero; this
\* stays so while post-processing runs, after it has exited, and if it
\* never ran.
C2_ExitCodeDecidesDirectory ==
    \A f \in created :
        Filed(f) =>
            IF returncode[f] = 0 THEN DirsOf(f) = {"done_jobs"}
            ELSE DirsOf(f) = {"failed_jobs"}

\* one run failed, another succeeded and its post-processing is running
C2_Witness ==
    /\ \E g \in created : returncode[g] > 0 /\ g \in dirs["failed_jobs"]
    /\ pc = "plotting"
    /\ returncode[next_job] = 0
    /\ next_job \in dirs["done_jobs"]

----------------------------------------------------------------------------
(* get_next_job on its own: one call on a queue of QueueLen descriptors *)

QueueFiles == 1..QueueLen

SelectDescs ==
    { Unparseable, NullDoc, ListDoc }
    \cup { [BaseDoc EXCEPT !.urgent = u] : u \in {"None", "True", "1"} }

SelectSettings ==
    SettingsObj("mapping", "dict",
                <<GoodVersion("v1", "None"), GoodVersion("v2", "True")>>,
                "None", "None", NoAlphaplots)

\* main() has passed startup and is about to call get_next_job
InitSelect ==
    /\ pc = "select"
    /\ settings_file = SettingsFile("ok", SelectSettings)
    /\ settings = SelectSettings
    /\ plotting = FALSE
    /\ probe = -1
    /\ dirs = [d \in DirNames |-> IF d = "input" THEN QueueFiles ELSE {}]
    /\ created = QueueFiles
    /\ desc \in [QueueFiles -> SelectDescs]
    /\ mtime \in [QueueFiles -> QueueFiles]
    /\ jobs = <<>>
    /\ next_job = NoFile
    /\ job = NoJob
    /\ code = -1
    /\ children = {}
    /\ invoked = {}
    /\ returncode = [f \in QueueFiles |-> -1]
    /\ starts = [f \in QueueFiles |-> 0]
    /\ subprocess_list = <<>>
    /\ restarts = 0
    /\ details = EmptyMap
    /\ fasta = EmptyMap
    /\ now = 0
    /\ raised_on = NoFile

NextSelect == GetNextJob

SpecSelect == InitSelect /\ [][NextSelect]_vars

Listed == {jobs[i] : i \in 1..Len(jobs)}

UrgentListed == {f \in Listed : desc[f].urgent = "True"}

Oldest(f, candidates) == \A g \in candidates : mtime[f] <= mtime[g]

\* C3: when every descriptor of the queue parses to a mapping, the call
\* returns a job: an urgent one (urgent exactly True) that no urgent one
\* precedes in modification time if any is urgent, and otherwise one that no
\* descriptor of the queue precedes in modification time.
C3_SelectionPolicy ==
    (pc # "select" /\ \A f \in Listed : desc[f].kind = "mapping") =>
        /\ pc = "check"
        /\ next_job \in Listed
        /\ IF UrgentListed # {}
           THEN next_job \in UrgentListed /\ Oldest(next_job, UrgentListed)
           ELSE Oldest(next_job, Listed)

\* the example: modification times t1 < t2 < t3, only the t2 file urgent
C3_Witness ==
    /\ pc = "check"
    /\ \A f \in Listed : desc[f].kind = "mapping"
    /\ \E a, b, c \in Listed :
         /\ mtime[a] < mtime[b] /\ mtime[b] < mtime[c]
         /\ UrgentListed = {b}
         /\ next_job = b

----------------------------------------------------------------------------
(* Unparseable descriptors *)

\* the loop of the latest get_next_job call opened jobs[i]: no earlier
\* file ended the call
Encountered(i) ==
    \A j \in 1..(i - 1) :
        /\ desc[jobs[j]].kind \in {"mapping", "list"}
        /\ desc[jobs[j]].urgent # "True"

\* C4: a descriptor that fails to parse is in failed_jobs/ once a selection
\* pass has opened it, is never the selected job, never reaches done_jobs/,
\* and the pipeline is never started for it.
C4_UnparseableNeverSelected ==
    /\ \A i \in 1..Len(jobs) :
         (desc[jobs[i]].kind = "unparseable" /\ Encountered(i))
             => DirsOf(jobs[i]) = {"failed_jobs"}
    /\ next_job # NoFile => desc[next_job].kind # "unparseable"
    /\ \A f \in created :
         desc[f].kind = "unparseable" =>
             /\ f \notin invoked
             /\ returncode[f] = -1
             /\ f \notin dirs["done_jobs"]

\* an unparseable descriptor was moved to failed_jobs/ and a later pass has
\* selected another descriptor
C4_Witness ==
    /\ pc = "check"
    /\ \E f \in dirs["failed_jobs"] :
         desc[f].kind = "unparseable" /\ f \notin Listed

----------------------------------------------------------------------------
(* Invalid descriptors *)

\* the descriptor parses, and its sequence data is absent, empty or not a
\* list, or its version id is not a key of the settings' versions
ParsesInvalid(d) ==
    \/ d.kind \in {"null", "list"}
    \/ /\ d.kind = "mapping"
       /\ \/ d.sequences.kind \in {"absent", "empty", "not_list"}
          \/ /\ d.version # "None"
             /\ d.version \notin VersionKeys(settings_file.content)

\* C5: for a descriptor that parses but is invalid, the pipeline is never
\* started, the descriptor never reaches done_jobs/, it is in failed_jobs/
\* once a pass has selected it, and it never brings the worker down.
C5_InvalidDescriptorFails ==
    \A f \in created :
        ParsesInvalid(desc[f]) =>
            /\ f \notin invoked
            /\ f \notin dirs["done_jobs"]
            /\ (next_job = f /\ pc # "check") => DirsOf(f) = {"failed_jobs"}
            /\ raised_on # f

----------------------------------------------------------------------------
(* The summary record *)

\* the job directory create_alphafold_job gives descriptor f
JobDir(f) == create_alphafold_job(f, desc[f], settings, 0).job_dir

HasSummary(f) ==
    /\ JobDir(f) \in DOMAIN details
    /\ details[JobDir(f)].start_time < details[JobDir(f)].end_time

\* the pipeline run of f returned and the iteration that ran it is over
IterationOver(f) ==
    /\ returncode[f] # -1
    /\ ~(next_job = f /\ pc \in {"file", "plots", "plotting", "summary"})

\* C7 as stated: after an iteration whose pipeline run returned nonzero the
\* descriptor is in failed_jobs/ and its job directory holds no summary
\* record; after one that returned 0 the descriptor is in done_jobs/ and the
\* job directory holds a summary whose start time precedes its end time.
C7_NoSummaryOnFailure ==
    \A f \in created :
        IterationOver(f) =>
            IF returncode[f] = 0
            THEN DirsOf(f) = {"done_jobs"} /\ HasSummary(f)
            ELSE DirsOf(f) = {"failed_jobs"} /\ JobDir(f) \notin DOMAIN details

\* C7 amended: the summary record is written after a nonzero exit code as
\* well; in both cases the descriptor is in the directory the code decides
\* and the record's start time precedes its end time.
C7_SummaryAfterEveryRun ==
    \A f \in created :
        IterationOver(f) =>
            /\ DirsOf(f) = {IF returncode[f] = 0 THEN "done_jobs" ELSE "failed_jobs"}
            /\ HasSummary(f)

\* one iteration ended with a nonzero code, another with 0, both summaries
\* are on disk
C7_Witness ==
    \E f, g \in created :
        /\ IterationOver(f) /\ returncode[f] # 0 /\ HasSummary(f)
        /\ IterationOver(g) /\ returncode[g] = 0 /\ HasSummary(g)

----------------------------------------------------------------------------
(* Post-processing *)

\* C8: run_alphaplots is called, and the tool runs, only with plotting on
\* (alphaplots declared and its probe exited 0) and only for a job whose
\* pipeline run returned 0; the descriptor is then already in done_jobs/
\* and is still there, and nowhere else, when the tool has exited.
C8_PostProcessingAfterSuccess ==
    /\ plotting => (settings.alphaplots.declared /\ probe = 0)
    /\ (pc \in {"plots", "plotting"} \/ "alphaplots" \in children) =>
          /\ plotting
          /\ code = 0
          /\ returncode[next_job] = 0
          /\ DirsOf(next_job) = {"done_jobs"}
    /\ (pc = "summary" /\ code = 0) => DirsOf(next_job) = {"done_jobs"}

\* the tool is running
C8_Witness == pc = "plotting" /\ "alphaplots" \in children

----------------------------------------------------------------------------
(* Idle polling *)

\* C9: while idle the worker always has a next step (it never terminates);
\* get_next_job on an empty queue sends it into the wait loop; each test of
\* the loop goes to sleep if input/ is empty and to get_next_job if it holds
\* a descriptor; each sleep is followed by the next test.
C9_IdlePolling ==
    /\ [](pc \in {"wait", "sleep"} => ENABLED (WaitPoll \/ Sleep))
    /\ [][ /\ (pc = "select" /\ dirs["input"] = {} /\ pc' # pc) => pc' = "wait"
           /\ (pc = "wait" /\ dirs["input"] = {} /\ pc' # pc) => pc' = "sleep"
           /\ (pc = "wait" /\ dirs["input"] # {} /\ pc' # pc) => pc' = "select"
           /\ (pc = "sleep" /\ pc' # pc) => pc' = "wait" ]_vars

\* the latest get_next_job call found the queue empty, the worker is in the
\* wait loop, and a descriptor has appeared since
C9_Witness ==
    /\ pc = "wait"
    /\ jobs = <<>>
    /\ dirs["input"] # {}

----------------------------------------------------------------------------
(* check_settings on its own: startup up to the end of check_settings *)

DefaultFlags == {"None", "True", "1"}
PathStates == {"None", "dir", "nodir"}

\* versions mappings of up to `most` entries, in file order
VersionLists(most) ==
    UNION { { [i \in 1..n |->
                 VersionEntry(VersionIds[i], flags[i], dd[i], p[i], v[i], "None")] :
              flags \in [1..n -> DefaultFlags],
              dd \in [1..n -> PathStates],
              p \in [1..n -> PathStates],
              v \in [1..n -> PathStates] } :
            n \in 0..most }

CheckedSettingsFiles(most) ==
    { SettingsFile("missing", NoSettings), SettingsFile("unparseable", NoSettings),
      SettingsFile("ok", SettingsObj("null", "absent", <<>>, "None", "None", NoAlphaplots)),
      SettingsFile("ok", SettingsObj("mapping", "absent", <<>>, "None", "None", NoAlphaplots)),
      SettingsFile("ok", SettingsObj("mapping", "notdict", <<>>, "None", "None", NoAlphaplots)) }
    \cup { SettingsFile("ok", SettingsObj("mapping", "dict", vs, "None", "None", NoAlphaplots)) :
             vs \in VersionLists(most) }

InitSettings ==
    /\ pc = "start"
    /\ settings_file \in CheckedSettingsFiles(MaxVersions)
    /\ settings = NoSettings
    /\ plotting = FALSE
    /\ probe = -1
    /\ dirs = [d \in DirNames |-> {}]
    /\ created = {}
    /\ desc = [f \in Files |-> NoDescriptor]
    /\ mtime = [f \in Files |-> 0]
    /\ jobs = <<>>
    /\ next_job = NoFile
    /\ job = NoJob
    /\ code = -1
    /\ children = {}
    /\ invoked = {}
    /\ returncode = [f \in Files |-> -1]
    /\ starts = [f \in Files |-> 0]
    /\ subprocess_list = <<>>
    /\ restarts = 0
    /\ details = EmptyMap
    /\ fasta = EmptyMap
    /\ now = 0
    /\ raised_on = NoFile

NextSettings ==
    \/ LoadSettings
    \/ CheckSettings

SpecSettings == InitSettings /\ [][NextSettings]_vars

\* the version entries flagged default: true
FlaggedDefault(versions) == {i \in 1..Len(versions) : versions[i].default = "True"}

AllDirectoriesExist(versions) ==
    \A i \in 1..Len(versions) :
        /\ versions[i].data_dir = "dir"
        /\ versions[i].path = "dir"
        /\ versions[i].venv = "dir"

\* check_settings has been called on a versions mapping and is over
SettingsChecked ==
    /\ settings.kind = "mapping"
    /\ settings.versions_kind = "dict"
    /\ pc # "check_settings"

\* C6: check_settings succeeds when exactly one version entry is flagged
\* default and every version's data_dir, path and venv are existing
\* directories, and it terminates the process when zero or more than one
\* version entry is flagged default.
C6_ExactlyOneDefault ==
    SettingsChecked =>
        /\ (Cardinality(FlaggedDefault(settings.versions)) = 1
              /\ AllDirectoriesExist(settings.versions))
               => pc = "check_alphaplots"
        /\ Cardinality(FlaggedDefault(settings.versions)) # 1
               => pc \in {"exited", "crashed"}

----------------------------------------------------------------------------
(* create_alphafold_job on its own: one call on a validated descriptor *)

\* versions mappings whose directories all exist
BuildVersionLists ==
    UNION { { [i \in 1..n |->
                 VersionEntry(VersionIds[i], flags[i], "dir", "dir", "dir", img[i])] :
              flags \in [1..n -> DefaultFlags],
              img \in [1..n -> {"None", "img"}] } :
            n \in 1..MaxVersions }

\* settings that check_settings accepts
BuildSettings ==
    { st \in { SettingsObj("mapping", "dict", vs, out, user, NoAlphaplots) :
                 vs \in BuildVersionLists,
                 out \in {"None", "/global"},
                 user \in {"None", "alice"} } :
        check_settings(st) = "ok" }

BuildDescs ==
    { Mapping("None", v, OneSequence, name, out, "None") :
        v \in {"None"} \cup {VersionIds[i] : i \in 1..MaxVersions},
        name \in {"None", "myjob"},
        out \in {"None", "/custom"} }

\* main() has selected descriptor f and check_config has accepted it
InitBuild ==
    \E f \in Files, d \in BuildDescs, st \in BuildSettings :
        /\ check_config(d, st) = "True"
        /\ pc = "create"
        /\ settings_file = SettingsFile("ok", st)
        /\ settings = st
        /\ plotting = FALSE
        /\ probe = -1
        /\ dirs = [x \in DirNames |-> IF x = "input" THEN {f} ELSE {}]
        /\ created = {f}
        /\ desc = [g \in Files |-> IF g = f THEN d ELSE NoDescriptor]
        /\ mtime = [g \in Files |-> IF g = f THEN 1 ELSE 0]
        /\ jobs = <<f>>
        /\ next_job = f
        /\ job = NoJob
        /\ code = -1
        /\ children = {}
        /\ invoked = {}
        /\ returncode = [g \in Files |-> -1]
        /\ starts = [g \in Files |-> 0]
        /\ subprocess_list = <<>>
        /\ restarts = 0
        /\ details = EmptyMap
        /\ fasta = EmptyMap
        /\ now = 0
        /\ raised_on = NoFile

NextBuild == CreateJob

SpecBuild == InitBuild /\ [][NextBuild]_vars

\* the first version entry, in file order, whose default flag is set
IsDefaultFlagged(versions, id) ==
    \E i \in 1..Len(versions) :
        /\ versions[i].id = id
        /\ versions[i].default # "None"
        /\ \A j \in 1..(i - 1) : versions[j].default = "None"

----------------------------------------------------------------------------
(* generate_fasta on its own: one call on a job built from a valid descriptor *)

FastaPairs == {[name |-> n, sequence |-> q] : n \in {"A", "B"}, q \in {"MKT", "GGG"}}

\* one item of the sequences list: a mapping of one or two names, in file order
FastaEntries ==
    { <<x>> : x \in FastaPairs }
    \cup { e \in { <<x, y>> : x \in FastaPairs, y \in FastaPairs } :
               e[1].name # e[2].name }

\* sequences lists of 1 to `most` entries
FastaSequences(most) ==
    UNION { { Sequences("list", "dict", es) : es \in [1..n -> FastaEntries] } :
            n \in 1..most }

\* main() has built the job of descriptor 1 and is about to call generate_fasta
InitFasta ==
    \E sq \in FastaSequences(MaxEntries) :
        LET d == [BaseDoc EXCEPT !.sequences = sq] IN
        /\ pc = "fasta"
        /\ settings_file = SettingsFile("ok", SelectSettings)
        /\ settings = SelectSettings
        /\ plotting = FALSE
        /\ probe = -1
        /\ dirs = [x \in DirNames |-> IF x = "input" THEN {1} ELSE {}]
        /\ created = {1}
        /\ desc = [g \in Files |-> IF g = 1 THEN d ELSE NoDescriptor]
        /\ mtime = [g \in Files |-> IF g = 1 THEN 1 ELSE 0]
        /\ jobs = <<1>>
        /\ next_job = 1
        /\ job = create_alphafold_job(1, d, SelectSettings, 0)
        /\ code = -1
        /\ children = {}
        /\ invoked = {}
        /\ returncode = [g \in Files |-> -1]
        /\ starts = [g \in Files |-> 0]
        /\ subprocess_list = <<>>
        /\ restarts = 0
        /\ details = EmptyMap
        /\ fasta = EmptyMap
        /\ now = 1
        /\ raised_on = NoFile

NextFasta == GenerateFasta

SpecFasta == InitFasta /\ [][NextFasta]_vars

\* the (name, sequence) pairs of a sequences list, in file order
RECURSIVE PairsOf(_)
PairsOf(entries) ==
    IF entries = <<>> THEN <<>> ELSE Head(entries) \o PairsOf(Tail(entries))

\* C11: after generate_fasta the fasta file holds, for the k-th sequence
\* pair of the descriptor, the line ">" + name as line 2k-1 and the sequence
\* as line 2k, and nothing else: two lines per pair, in the pairs' order.
C11_FastaRecordsInOrder ==
    pc = "run" =>
        LET pairs == PairsOf(desc[next_job].sequences.entries)
            lines == fasta[job.fasta_paths]
        IN  /\ Len(lines) = 2 * Len(pairs)
            /\ \A k \in 1..Len(pairs) :
                 /\ lines[2 * k - 1] = ">" \o pairs[k].name \o "\n"
                 /\ lines[2 * k] = pairs[k].sequence \o "\n"

\* the example: the pairs (A, MKT), (B, GGG) give the record of A, then B's
C11_Witness ==
    /\ pc = "run"
    /\ PairsOf(desc[next_job].sequences.entries)
         = <<[name |-> "A", sequence |-> "MKT"], [name |-> "B", sequence |-> "GGG"]>>
    /\ fasta[job.fasta_paths] = <<">A\n", "MKT\n", ">B\n", "GGG\n">>

----------------------------------------------------------------------------
(* A parse failure during selection *)

\* the latest get_next_job call opened jobs[i] and safe_load raised on it
FailedToParse(i) == desc[jobs[i]].kind = "unparseable" /\ Encountered(i)

\* C12 as stated: when the call meets an unparseable descriptor while a
\* parseable one is in the queue, it files the unparseable one under
\* failed_jobs/ and still returns one of the others.
C12_SelectionContinues ==
    \A i \in 1..Len(jobs) :
        (pc # "select" /\ FailedToParse(i)
           /\ \E g \in Listed : desc[g].kind = "mapping") =>
            /\ DirsOf(jobs[i]) = {"failed_jobs"}
            /\ pc = "check"
            /\ next_job \in Listed \ {jobs[i]}

\* C12 amended: when the call meets an unparseable descriptor it files that
\* one under failed_jobs/ and returns "no job" at once; every other
\* descriptor of the queue, parseable or not, is left in input/ for the
\* next call.
C12_ParseFailureEndsCall ==
    \A i \in 1..Len(jobs) :
        (pc # "select" /\ FailedToParse(i)) =>
            /\ pc = "wait"
            /\ next_job = NoFile
            /\ dirs["failed_jobs"] = {jobs[i]}
            /\ dirs["done_jobs"] = {}
            /\ dirs["input"] = Listed \ {jobs[i]}

\* the call ended on an unparseable descriptor although an urgent mapping
\* was behind it in the queue
C12_Witness ==
    /\ pc = "wait"
    /\ \E i \in 1..Len(jobs) :
         /\ FailedToParse(i)
         /\ \E k \in (i + 1)..Len(jobs) :
              desc[jobs[k]].urgent = "True" /\ jobs[k] \in dirs["input"]

----------------------------------------------------------------------------
(* Terminal directories *)

\* main() is between the selection of next_job and its move
InHand == pc \in {"check", "create", "fasta", "run", "running", "file"}

\* C13: what the worker validates, builds or runs is a descriptor in input/;
\* a descriptor that has left input/ stays in the directory it was moved to,
\* is not selected again and its pipeline is not started (again).
C13_TerminalIsAbsorbing ==
    /\ [](InHand => next_job \in dirs["input"])
    /\ [][\A f \in created :
            f \notin dirs["input"] =>
                /\ DirsOf(f)' = DirsOf(f)
                /\ next_job' = f => next_job = f
                /\ starts'[f] = starts[f]]_vars

\* a descriptor whose run failed lies in failed_jobs/ while a later pass has
\* selected another one
C13_Witness ==
    /\ pc = "check"
    /\ \E f \in dirs["failed_jobs"] : returncode[f] > 0 /\ next_job # f

----------------------------------------------------------------------------
(* When the summary record is written *)

\* safe_load raises on the descriptor or check_config returns False for it
Rejected(f) ==
    \/ desc[f].kind = "unparseable"
    \/ /\ desc[f].kind \in {"list", "mapping"}
       /\ check_config(desc[f], settings_file.content) = "False"

\* C14: a summary record is written only by the step that ends an iteration
\* which ran a job: the descriptor of the job has then left input/ for
\* done_jobs/ or failed_jobs/, no child process is running, and the step is
\* entered once per iteration, from the move or from post-processing; no
\* record bears the name of a descriptor that was rejected.
C14_SummaryOnceAfterMove ==
    /\ [][details' # details =>
            /\ pc = "summary" /\ pc' = "select"
            /\ returncode[next_job] # -1
            /\ Cardinality(DirsOf(next_job) \cap {"done_jobs", "failed_jobs"}) = 1
            /\ next_job \notin dirs["input"]
            /\ children = {}
            /\ DOMAIN details' = DOMAIN details \cup {job.job_dir}]_vars
    /\ [][(pc' = "summary" /\ pc # "summary") =>
            pc \in {"file", "plots", "plotting"}]_vars
    /\ [](\A f \in created :
            Rejected(f) => \A k \in DOMAIN details : details[k].name # stem(f))

\* the record is written after post-processing has run, while a rejected
\* descriptor lies in failed_jobs/
C14_Witness ==
    /\ pc = "select"
    /\ plotting
    /\ job.alphaplots = "opts"
    /\ job.job_dir \in DOMAIN details
    /\ \E f \in dirs["failed_jobs"] : Rejected(f)

----------------------------------------------------------------------------
(* One job at a time *)

\* C15: at most one child process of the worker runs at any time and the
\* worker does nothing else while it runs; a new selection is made only when
\* no child runs and the descriptor selected before has left input/.
C15_OneJobAtATime ==
    /\ [](Cardinality(children) <= 1)
    /\ [](children # {} => pc \in {"running", "plotting"})
    /\ [][next_job' # next_job =>
            /\ pc = "select"
            /\ children = {}
            /\ next_job \notin dirs["input"]]_vars

\* the pipeline runs for one descriptor while another one waits in input/
C15_Witness ==
    /\ pc = "running"
    /\ children = {"alphafold"}
    /\ dirs["input"] \ {next_job} # {}

----------------------------------------------------------------------------
(* Crash before the terminal move *)

\* main() is between create_alphafold_job and the move of next_job
BeforeMove == pc \in {"create", "fasta", "run", "running", "file"}

\* C16: while the job of a descriptor is built, its fasta file written and
\* its pipeline run, the descriptor is in input/ and nowhere else; a
\* descriptor that check_config accepts is outside input/ only with the exit
\* code of a run of it known; the death of the worker leaves every
\* descriptor where it is, and a worker started afterwards treats a
\* descriptor whose pipeline was started before like any other.
C16_DescriptorStaysQueuedUntilFiled ==
    /\ [](BeforeMove => DirsOf(next_job) = {"input"})
    /\ [](pc = "file" => returncode[next_job] = code)
    /\ [](\A f \in created :
            (check_config(desc[f], settings_file.content) = "True"
               /\ f \notin dirs["input"]) => returncode[f] # -1)
    /\ [][pc' \in {"killed", "crashed", "exited"} => dirs' = dirs]_vars
    /\ [][restarts' # restarts => (dirs' = dirs /\ invoked' = invoked)]_vars
    /\ []((pc = "run" /\ next_job \in invoked) => ENABLED StartAlphafold)

\* the worker was killed while the pipeline of a descriptor ran; the worker
\* started afterwards runs the pipeline for the same descriptor again
C16_Witness ==
    /\ restarts = 1
    /\ pc = "running"
    /\ starts[next_job] = 2
    /\ returncode[next_job] = -1
    /\ next_job \in dirs["input"]

----------------------------------------------------------------------------
(* Startup validation *)

\* settings.yaml is a file that parses to a mapping with a versions mapping
\* that flags a default version and whose data_dir, path and venv are all
\* existing directories
SettingsValid(sf) ==
    /\ sf.state = "ok"
    /\ sf.content.kind = "mapping"
    /\ sf.content.versions_kind = "dict"
    /\ \E i \in 1..Len(sf.content.versions) : sf.content.versions[i].default = "True"
    /\ \A i \in 1..Len(sf.content.versions) :
         /\ sf.content.versions[i].data_dir = "dir"
         /\ sf.content.versions[i].path = "dir"
         /\ sf.content.versions[i].venv = "dir"

\* no post-processing tool is declared, or the declared one is a file, its
\* interpreter exists and its version probe has exited with 0
AlphaplotsValid(sf) ==
    sf.content.alphaplots.declared =>
        /\ sf.content.alphaplots.path = "file"
        /\ sf.content.alphaplots.venv \in {"None", "venv"}
        /\ probe = 0

StartupPassed == SettingsValid(settings_file) /\ AlphaplotsValid(settings_file)

\* get_next_job has not been called and no descriptor was touched
NothingProcessed ==
    /\ jobs = <<>>
    /\ next_job = NoFile
    /\ dirs["input"] = created
    /\ dirs["failed_jobs"] = {}
    /\ dirs["done_jobs"] = {}
    /\ invoked = {}
    /\ children = {}

\* C17: as long as startup validation has not passed, the worker is in its
\* startup code or dead, it has not called get_next_job, and every
\* descriptor is in input/, untouched; with a settings file or a
\* post-processing tool that is not valid this is so for ever.
C17_NothingBeforeStartupPassed ==
    /\ ~StartupPassed =>
          /\ pc \in {"start", "check_settings", "check_alphaplots", "exited", "crashed"}
          /\ NothingProcessed
    /\ pc \in {"start", "check_settings", "check_alphaplots"} => NothingProcessed
    /\ (~SettingsValid(settings_file) /\ pc \notin {"start", "check_settings"})
          => pc \in {"exited", "crashed"}
    /\ (probe > 0 \/ (settings.alphaplots.declared
                        /\ alphaplots_requirements(settings.alphaplots) = "exit"
                        /\ pc \notin {"check_settings", "check_alphaplots"}))
          => pc = "exited"

\* the version probe of the declared tool exited nonzero: the process has
\* ended with a descriptor waiting in input/
C17_Witness ==
    /\ pc = "exited"
    /\ probe > 0
    /\ dirs["input"] # {}

----------------------------------------------------------------------------
(* run_alphafold on its own: one job from its construction to the start of
   the pipeline *)

\* the keys of a descriptor that only run_alphafold reads
CommandParams ==
    [max_template_date : {"absent", "2020-05-14"},
     model_preset : {"absent", "None", "multimer"},
     num_multimer_predictions_per_model : {"absent", "5"},
     models_to_relax : {"absent", "best"},
     docker_image_name : {"absent", "myimage"}]

CommandDescs ==
    { [BaseDoc EXCEPT !.version = v, !.params = pr] :
        v \in {"None", "v1"}, pr \in CommandParams }

\* two versions, the second one the default, each with or without an image
CommandSettings ==
    { SettingsObj("mapping", "dict",
                  <<VersionEntry("v1", "None", "dir", "dir", "dir", i1),
                    VersionEntry("v2", "True", "dir", "dir", "dir", i2)>>,
                  "None", user, NoAlphaplots) :
        i1 \in {"None", "", "img1"}, i2 \in {"None", "img2"},
        user \in {"None", "alice"} }

\* main() has selected descriptor 1 and check_config has accepted it
InitCommand ==
    \E d \in CommandDescs, st \in CommandSettings :
        /\ pc = "create"
        /\ settings_file = SettingsFile("ok", st)
        /\ settings = st
        /\ plotting = FALSE
        /\ probe = -1
        /\ dirs = [x \in DirNames |-> IF x = "input" THEN {1} ELSE {}]
        /\ created = {1}
        /\ desc = [g \in Files |-> IF g = 1 THEN d ELSE NoDescriptor]
        /\ mtime = [g \in Files |-> IF g = 1 THEN 1 ELSE 0]
        /\ jobs = <<1>>
        /\ next_job = 1
        /\ job = NoJob
        /\ code = -1
        /\ children = {}
        /\ invoked = {}
        /\ returncode = [g \in Files |-> -1]
        /\ starts = [g \in Files |-> 0]
        /\ subprocess_list = <<>>
        /\ restarts = 0
        /\ details = EmptyMap
        /\ fasta = EmptyMap
        /\ now = 0
        /\ raised_on = NoFile

NextCommand ==
    \/ CreateJob
    \/ GenerateFasta
    \/ StartAlphafold

SpecCommand == InitCommand /\ [][NextCommand]_vars

\* the version entry the job of descriptor d runs under
ChosenVersion(d) ==
    LET id == IF d.version # "None" THEN d.version ELSE "v2"
    IN  CHOOSE e \in {settings.versions[i] : i \in 1..Len(settings.versions)} : e.id = id

\* "--key=value" if the parameter is present, nothing otherwise
Passed(key, value) == IF value = "absent" THEN <<>> ELSE <<"--" \o key \o "=" \o value>>

\* C18: the command line starts with the version's interpreter and launcher
\* script, goes on with max_template_date, data_dir, docker_user, output_dir
\* and fasta_paths as --key=value, and ends with model_preset,
\* num_multimer_predictions_per_model, models_to_relax and docker_image_name,
\* in this order, each there exactly if the descriptor has the key (for
\* docker_image_name: or the chosen version entry names an image) and left
\* out otherwise.
C18_CommandLine ==
    pc = "running" =>
        LET d == desc[next_job]
            v == ChosenVersion(d)
            image == IF v.docker_image_name \notin {"None", ""}
                     THEN v.docker_image_name ELSE d.params.docker_image_name
        IN  subprocess_list =
              <<v.venv \o "/bin/python3", v.path \o "/docker/run_docker.py",
                "--max_template_date=" \o (IF d.params.max_template_date = "absent"
                                           THEN today(job.start_time)
                                           ELSE d.params.max_template_date),
                "--data_dir=" \o v.data_dir,
                "--docker_user=" \o (IF settings.docker_user = "None" THEN "root"
                                     ELSE settings.docker_user),
                "--output_dir=" \o RunDirectory \o "/results",
                "--fasta_paths=" \o RunDirectory \o "/results/job1/job1.fasta">>
              \o Passed("model_preset", d.params.model_preset)
              \o Passed("num_multimer_predictions_per_model",
                        d.params.num_multimer_predictions_per_model)
              \o Passed("models_to_relax", d.params.models_to_relax)
              \o Passed("docker_image_name", image)

\* a descriptor with models_to_relax as its only optional parameter, run
\* under the default version, whose entry names an image
C18_Witness ==
    /\ pc = "running"
    /\ subprocess_list =
         <<"dir/bin/python3", "dir/docker/run_docker.py",
           "--max_template_date=2020-05-14", "--data_dir=dir",
           "--docker_user=root", "--output_dir=/rundir/results",
           "--fasta_paths=/rundir/results/job1/job1.fasta",
           "--models_to_relax=best", "--docker_image_name=img2">>

----------------------------------------------------------------------------
(* Draining a queue: the main loop on a queue nobody adds to *)

\* settings with a post-processing tool that has answered its probe
DrainSettings ==
    SettingsObj("mapping", "dict",
                <<GoodVersion("v1", "None"), GoodVersion("v2", "True")>>,
                "None", "None", [declared |-> TRUE, path |-> "file", venv |-> "None"])

\* main() has passed startup; every file is in input/
InitDrain ==
    /\ pc = "select"
    /\ settings_file = SettingsFile("ok", DrainSettings)
    /\ settings = DrainSettings
    /\ plotting = TRUE
    /\ probe = 0
    /\ dirs = [d \in DirNames |-> IF d = "input" THEN Files ELSE {}]
    /\ created = Files
    /\ desc \in [Files -> WorkerDescs]
    /\ mtime \in [Files -> MTimes]
    /\ jobs = <<>>
    /\ next_job = NoFile
    /\ job = NoJob
    /\ code = -1
    /\ children = {}
    /\ invoked = {}
    /\ returncode = [f \in Files |-> -1]
    /\ starts = [f \in Files |-> 0]
    /\ subprocess_list = <<>>
    /\ restarts = 0
    /\ details = EmptyMap
    /\ fasta = EmptyMap
    /\ now = 0
    /\ raised_on = NoFile

NextDrain ==
    \/ GetNextJob
    \/ CheckConfig
    \/ CreateJob
    \/ GenerateFasta
    \/ StartAlphafold
    \/ FinishAlphafold
    \/ FileJob
    \/ StartAlphaplots
    \/ FinishAlphaplots
    \/ PrintJobDetails
    \/ WaitPoll
    \/ Sleep

\* The worker process keeps being scheduled and every child process it
\* waits for exits.
SpecDrain == InitDrain /\ [][NextDrain]_vars /\ WF_vars(NextDrain)

\* C19: when the worker is back at get_next_job after a pass that found
\* descriptors, exactly one of them has left input/; and, with nobody adding
\* descriptors and every child process exiting, the worker ends up polling
\* an empty input/ with every descriptor in failed_jobs/ or done_jobs/.
C19_QueueDrains ==
    /\ []((pc = "select" /\ jobs # <<>>) =>
            /\ dirs["input"] \subseteq Listed
            /\ Cardinality(Listed \ dirs["input"]) = 1)
    /\ <>[](/\ pc \in {"wait", "sleep"}
            /\ dirs["input"] = {}
            /\ dirs["failed_jobs"] \cup dirs["done_jobs"] = created)

----------------------------------------------------------------------------
(* The default version at startup and at job construction *)

\* C20: for settings check_settings accepts and a descriptor without a
\* version id, the job's version is the one check_settings took as the
\* default, and its data directory, pipeline path and interpreter are those
\* of that version's entry.
C20_SameDefaultVersion ==
    (pc = "fasta" /\ desc[next_job].version = "None") =>
        LET default_version == FirstDefaultIsTrue(settings.versions) IN
        /\ job.version = default_version
        /\ job.data_dir = VersionDict(settings, default_version).data_dir
        /\ job.alphafold_path = VersionDict(settings, default_version).path
        /\ job.alphafold_venv = VersionDict(settings, default_version).venv

====
